---------------------------- MODULE Spec2Model ----------------------------
(***************************************************************************)
(* State-machine model of the rust-physics-engine main loops               *)
(* (src/src/version_2d/main.rs, src/src/version_3d/main.rs and the older   *)
(* src/src/main.rs), their spatial hash and the fps smoother.              *)
(*                                                                         *)
(* f32 values are fixed-point integers:                                    *)
(*   lengths and velocities   in 1/Q       (Q = 100: centi-pixels)         *)
(*   unit vectors and factors in 1/Unit    (Unit = 1000: per-mille)        *)
(*   times                    in 1/Unit s  (milliseconds)                  *)
(* Every product or quotient is rounded once, to nearest, ties away from   *)
(* zero (symmetric under negation like IEEE round-to-nearest).  The float  *)
(* special values the code can produce by dividing by zero are kept as     *)
(* reserved values: NaN (0/0), PosInf and NegInf (x/0).                    *)
(***************************************************************************)
EXTENDS Integers, Sequences, FiniteSets, TLC

(***************************************************************************)
(* f32 arithmetic                                                          *)
(***************************************************************************)
Q == 100
Unit == 1000

NaN == -999999999
PosInf == 999999998
NegInf == -999999998

IsNaN(x) == x = NaN
IsInf(x) == x = PosInf \/ x = NegInf
IsFinite(x) == ~IsNaN(x) /\ ~IsInf(x)

Abs(x) == IF x < 0 THEN -x ELSE x
Sign(x) == IF x < 0 THEN -1 ELSE IF x > 0 THEN 1 ELSE 0

\* a / b for b > 0, rounded to nearest, ties away from zero
RoundDiv(a, b) == Sign(a) * ((2 * Abs(a) + b) \div (2 * b))

FNeg(a) == IF IsNaN(a) THEN NaN
           ELSE IF a = PosInf THEN NegInf
           ELSE IF a = NegInf THEN PosInf
           ELSE -a

FAdd(a, b) == IF IsNaN(a) \/ IsNaN(b) THEN NaN
              ELSE IF IsInf(a) /\ IsInf(b) THEN (IF a = b THEN a ELSE NaN)
              ELSE IF IsInf(a) THEN a
              ELSE IF IsInf(b) THEN b
              ELSE a + b

FSub(a, b) == FAdd(a, FNeg(b))

\* a * b / d for a scale d > 0 (one rounding)
FMul(a, b, d) == IF IsNaN(a) \/ IsNaN(b) THEN NaN
                 ELSE IF IsInf(a) \/ IsInf(b)
                      THEN (IF a = 0 \/ b = 0 THEN NaN
                            ELSE IF Sign(a) * Sign(b) > 0 THEN PosInf ELSE NegInf)
                 ELSE RoundDiv(a * b, d)

\* a * s / b: the quotient a / b expressed in the scale s
FDiv(a, s, b) == IF IsNaN(a) \/ IsNaN(b) THEN NaN
                 ELSE IF IsInf(a) /\ IsInf(b) THEN NaN
                 ELSE IF IsInf(a) THEN (IF Sign(a) * Sign(b) >= 0 THEN PosInf ELSE NegInf)
                 ELSE IF IsInf(b) THEN 0
                 ELSE IF b = 0 THEN (IF a = 0 THEN NaN
                                     ELSE IF a > 0 THEN PosInf ELSE NegInf)
                 ELSE Sign(b) * RoundDiv(a * s, Abs(b))

\* comparisons: false as soon as an operand is NaN
FLt(a, b) == ~IsNaN(a) /\ ~IsNaN(b) /\ a < b
FGt(a, b) == FLt(b, a)
FLe(a, b) == ~IsNaN(a) /\ ~IsNaN(b) /\ a <= b

\* f32::min and f32::max return the other operand when one is NaN
FMin(a, b) == IF IsNaN(a) THEN b ELSE IF IsNaN(b) THEN a ELSE IF a < b THEN a ELSE b
FMax(a, b) == IF IsNaN(a) THEN b ELSE IF IsNaN(b) THEN a ELSE IF a > b THEN a ELSE b

RECURSIVE SqrtIter(_, _)
SqrtIter(n, x) == LET y == (x + n \div x) \div 2
                  IN  IF y >= x THEN x ELSE SqrtIter(n, y)

\* sqrt of n >= 0, rounded to nearest
Sqrt(n) == IF n = 0 THEN 0
           ELSE LET f == SqrtIter(n, n)
                IN  IF n - f * f > f THEN f + 1 ELSE f

(***************************************************************************)
(* Vec2 / Vec3: a tuple of D components                                    *)
(***************************************************************************)
VAdd(a, b) == [k \in DOMAIN a |-> FAdd(a[k], b[k])]
VSub(a, b) == [k \in DOMAIN a |-> FSub(a[k], b[k])]
VScale(a, f, d) == [k \in DOMAIN a |-> FMul(a[k], f, d)]
\* a division that is left out: the vector as it was
VDivideNone(a, s, f) == a

VDivide(a, s, f) == [k \in DOMAIN a |-> FDiv(a[k], s, f)]
VHasNaN(a) == \E k \in DOMAIN a : IsNaN(a[k])

RECURSIVE SumSq(_, _)
SumSq(a, k) == IF k = 0 THEN 0 ELSE a[k] * a[k] + SumSq(a, k - 1)

RECURSIVE DotSum(_, _, _)
DotSum(a, b, k) == IF k = 0 THEN 0 ELSE a[k] * b[k] + DotSum(a, b, k - 1)

\* Vec::length
Length(a) == IF VHasNaN(a) THEN NaN ELSE Sqrt(SumSq(a, Len(a)))

\* Vec::distance
Distance(a, b) == Length(VSub(a, b))

\* Vec::dot of a (scale Q) with a unit-scale vector b, result in scale Q
Dot(a, b) == IF VHasNaN(a) \/ VHasNaN(b) THEN NaN
             ELSE RoundDiv(DotSum(a, b, Len(a)), Unit)

(***************************************************************************)
(* Configuration (common/config.rs) and the constants of src/src/main.rs   *)
(***************************************************************************)
Variants == {"v2d", "v3d", "legacy"}

\* a sample config.toml: 60 x 60 (x 60) pixels, balls of radius 10
Config == [ball_radius   |-> 10 * Q,
           gravity       |-> 981,
           resistance    |-> 999,
           bounce_amount |-> 600,
           max_speed     |-> 2000 * Q,
           max_pressure  |-> 1000 * Unit,
           width         |-> 60 * Q,
           height        |-> 60 * Q,
           depth         |-> 60 * Q,
           sim_steps     |-> 2,
           auto_sim_steps |-> TRUE,
           target_fps    |-> 65,
           fps_boundary  |-> 15,
           delete_dist   |-> 15 * Q]

BALL_RADIUS == 1000
GRAVITY == 981
SIM_STEPS == 20
RESISTANCE == 999
BOUNCE_AMOUNT == 600
MAX_SPEED == 200000
MAX_PRESSURE == 1000000
WIDTH == 120000
HEIGHT == 80000
LEGACY_TARGET_FPS == 65
LEGACY_UPPER_FPS == 80

Pi == 3142

VARIABLES variant, cfg, balls, colors, grid, current_ball_idx, do_gravity,
          display_mode, sim_steps, smoothed_fps, pc, step, i, frame, inp,
          largest_speed, largest_pressure, next_uid, views, nearby, before, log

vars == <<variant, cfg, balls, colors, grid, current_ball_idx, do_gravity,
          display_mode, sim_steps, smoothed_fps, pc, step, i, frame, inp,
          largest_speed, largest_pressure, next_uid, views, nearby, before, log>>

\* number of coordinates of a position
Dim == IF variant = "v3d" THEN 3 ELSE 2

ball_radius == IF variant = "legacy" THEN BALL_RADIUS ELSE cfg.ball_radius
gravity == IF variant = "legacy" THEN GRAVITY ELSE cfg.gravity
resistance == IF variant = "legacy" THEN RESISTANCE ELSE cfg.resistance
max_speed == IF variant = "legacy" THEN MAX_SPEED ELSE cfg.max_speed
max_pressure == IF variant = "legacy" THEN MAX_PRESSURE ELSE cfg.max_pressure

\* a factor below zero: a response that drives the pair together
NegativeBounce == -(6 * (Unit \div 10))

\* the factor applied to the closing speed: bounce_amount, or in
\* src/src/main.rs restitution = 1.0 - BOUNCE_AMOUNT
bounce_factor == IF variant = "legacy" THEN Unit - BOUNCE_AMOUNT ELSE cfg.bounce_amount

\* the factor the boundaries apply
bounce_amount == IF variant = "legacy" THEN BOUNCE_AMOUNT ELSE cfg.bounce_amount

\* screen_width(), screen_height() (the window has the requested size) and,
\* in 3-D, the configured width, height and depth
Extent == IF variant = "legacy" THEN <<WIDTH, HEIGHT>>
          ELSE IF variant = "v3d" THEN <<cfg.width, cfg.height, cfg.depth>>
          ELSE <<cfg.width, cfg.height>>

\* SpatialHash::new((ball_radius * 2.0) + 2.0)
cell_size == 2 * ball_radius + 2 * Q

(***************************************************************************)
(* SpatialHash                                                             *)
(***************************************************************************)
\* (x / cell_size).floor() as i32; the cast takes NaN to 0
FloorCell(x, cs) == IF IsNaN(x) THEN 0 ELSE x \div cs

to_cell_coords(position, cs) == [k \in DOMAIN position |-> FloorCell(position[k], cs)]

\* grid: the occupied cells, each with the ids pushed into it, in order
insert(g, position, id, cs) ==
    LET c == to_cell_coords(position, cs)
    IN  [d \in (DOMAIN g) \cup {c} |->
            IF d = c THEN (IF c \in DOMAIN g THEN Append(g[c], id) ELSE <<id>>)
            ELSE g[d]]

\* the offsets -r..r, without r itself: a block that misses its last row
RECURSIVE OffsetsExclusive(_, _)
OffsetsExclusive(dims, r) ==
    IF dims = 0 THEN << <<>> >>
    ELSE LET rest == OffsetsExclusive(dims - 1, r)
             width == 2 * r
             n == Len(rest)
         IN  [j \in 1..(width * n) |->
                 <<((j - 1) \div n) - r>> \o rest[((j - 1) % n) + 1]]

\* the offsets -r..=r of a block of cells, in the order of the nested for loops
RECURSIVE Offsets(_, _)
Offsets(dims, r) ==
    IF dims = 0 THEN << <<>> >>
    ELSE LET rest == Offsets(dims - 1, r)
             width == 2 * r + 1
             n == Len(rest)
         IN  [j \in 1..(width * n) |->
                 <<((j - 1) \div n) - r>> \o rest[((j - 1) % n) + 1]]

Bucket(g, c) == IF c \in DOMAIN g THEN g[c] ELSE <<>>

RECURSIVE Collect(_, _, _, _)
Collect(g, center, offs, k) ==
    IF k > Len(offs) THEN <<>>
    ELSE Bucket(g, [d \in DOMAIN center |-> center[d] + offs[k][d]])
         \o Collect(g, center, offs, k + 1)

\* spatial_hash_3d.rs get_nearby_objects(position, id): the 3x3(x3) block
\* around the cell of position, without the id asked for
get_nearby_objects(g, position, id, cs) ==
    LET center == to_cell_coords(position, cs)
    IN  SelectSeq(Collect(g, center, Offsets(Len(position), 1), 1),
                  LAMBDA o : o # id)

\* (range / cell_size).ceil() as i32
RangeCells(range, cs) == IF IsNaN(range) THEN 0 ELSE -((-range) \div cs)

\* spatial_hash.rs get_nearby_objects(position, range)
get_nearby_objects_range(g, position, range, cs) ==
    LET center == to_cell_coords(position, cs)
        rc == RangeCells(range, cs)
    IN  IF rc < 0 THEN <<>>
        ELSE Collect(g, center, Offsets(Len(position), rc), 1)

(***************************************************************************)
(* Ball, collision response, boundaries                                    *)
(***************************************************************************)
\* uid is not a field of the code's Ball: it names the body across the
\* reassignments of id, so that the order of survivors can be stated
Ball(id, position, velocity, color, uid) ==
    [id |-> id, position |-> position, velocity |-> velocity, pressure |-> 0,
     color |-> color, radius |-> ball_radius, uid |-> uid]

is_colliding(ball, otherball) ==
    FLt(Distance(ball.position, otherball.position), ball.radius + otherball.radius)

\* PI * radius * radius, in square pixels (scale Q)
Area(radius) == FMul(FMul(Pi, radius, Unit), radius, Q)

\* the pressure a ball is left with by a response of the given force
NewPressure(pressure, force, radius) ==
    IF variant = "v2d"
    THEN FMax(FMin(FAdd(pressure, FDiv(FNeg(force), Unit, Area(radius))), Unit), 0)
    ELSE FMin(FDiv(FNeg(force), Unit, Area(radius)), max_pressure)

\* overlap < 0.001
OverlapBelowThreshold(overlap) == FLt(FMul(overlap, 1000, 1), Q)

\* the pair <<ball, otherball>> as resolve_collision leaves it
resolve_collision(ball, otherball) ==
    LET diff == VSub(otherball.position, ball.position)
        dist == Distance(ball.position, otherball.position)
        overlap == FSub(ball.radius + otherball.radius, dist)
        pdiff == VDivide(diff, Unit, dist)
        shift == VScale(pdiff, overlap, 2 * Unit)
        ball1 == [ball EXCEPT !.position = VSub(ball.position, shift)]
        other1 == [otherball EXCEPT !.position = VAdd(otherball.position, shift)]
        relative_velocity == VSub(otherball.velocity, ball.velocity)
        dot_product == Dot(relative_velocity, pdiff)
        force == FMul(dot_product, bounce_factor, Unit)
        push == VScale(pdiff, force, Unit)
    IN  IF OverlapBelowThreshold(overlap) THEN <<ball, otherball>>
        ELSE IF FGt(dot_product, 0) THEN <<ball1, other1>>
        ELSE <<[ball1 EXCEPT !.pressure = NewPressure(ball.pressure, force, ball.radius),
                             !.velocity = VAdd(ball.velocity, push)],
               [other1 EXCEPT !.pressure = NewPressure(otherball.pressure, force,
                                                       otherball.radius),
                              !.velocity = VSub(otherball.velocity, push)]>>

\* one axis of resolve_boundaries: <<position, velocity>> on that axis
ClampAxis(p, v, radius, extent, bounce) ==
    IF FLt(FSub(p, radius), 0)
    THEN <<radius, IF FLt(v, 0) THEN FMul(v, -bounce, Unit) ELSE v>>
    ELSE IF FGt(FAdd(p, radius), extent)
    THEN <<extent - radius, IF FGt(v, 0) THEN FMul(v, -bounce, Unit) ELSE v>>
    ELSE <<p, v>>

resolve_boundaries(ball, extent, bounce) ==
    [ball EXCEPT
       !.position = [k \in DOMAIN ball.position |->
                       ClampAxis(ball.position[k], ball.velocity[k], ball.radius,
                                 extent[k], bounce)[1]],
       !.velocity = [k \in DOMAIN ball.velocity |->
                       ClampAxis(ball.position[k], ball.velocity[k], ball.radius,
                                 extent[k], bounce)[2]]]

(***************************************************************************)
(* Colors and display mode                                                 *)
(***************************************************************************)
Color(r, g, b) == [r |-> r, g |-> g, b |-> b]

get_color_from_vel(ball, largest) ==
    LET normalised_speed == FDiv(Length(ball.velocity), Unit, largest)
    IN  Color(0, normalised_speed, FSub(Unit, normalised_speed))

get_color_from_pressure(ball, largest) ==
    LET normalised_pressure == IF largest # 0 THEN FDiv(ball.pressure, Unit, largest)
                               ELSE 0
    IN  Color(normalised_pressure, 0, FSub(Unit, normalised_pressure))

\* a toggle that never reaches Pressure
ToggleTwoCycle(mode) == IF mode = "Normal" THEN "Velocity" ELSE "Normal"

toggle_display_mode(mode) ==
    CASE mode = "Normal" -> "Velocity"
      [] mode = "Velocity" -> "Pressure"
      [] mode = "Pressure" -> "Normal"

(***************************************************************************)
(* SmoothedFps (fps_counter.rs)                                            *)
(***************************************************************************)
FPS_HISTORY_SIZE == 60

SmoothedFpsNew == [history |-> [k \in 0..(FPS_HISTORY_SIZE - 1) |-> 0],
                   index |-> 0, sum |-> 0, count |-> 0]

\* an update that never takes the replaced sample out of the sum
UpdateNoEvict(s, fps) ==
    [history |-> [s.history EXCEPT ![s.index] = fps],
     index |-> (s.index + 1) % FPS_HISTORY_SIZE,
     sum |-> s.sum + fps,
     count |-> IF s.count < FPS_HISTORY_SIZE THEN s.count + 1 ELSE s.count]

update(s, fps) ==
    LET full == ~(s.count < FPS_HISTORY_SIZE)
    IN  [history |-> [s.history EXCEPT ![s.index] = fps],
         index |-> (s.index + 1) % FPS_HISTORY_SIZE,
         sum |-> (IF full THEN s.sum - s.history[s.index] ELSE s.sum) + fps,
         count |-> IF full THEN s.count ELSE s.count + 1]

\* sum / count, in 1/Unit frames per second
get_average(s) == IF s.count = 0 THEN 0 ELSE FDiv(s.sum, Unit, s.count)

(***************************************************************************)
(* The main loop, one frame: BeginFrame, ResolveBody for each pass and     *)
(* body, Integrate, Remove (2-D), Control.  pc is the place in the loop.   *)
(***************************************************************************)
I32Max == 2147483647
I32Min == -I32Max - 1

\* the index of the body the loop variable i (from 0) stands for
Cur == i + 1

RECURSIVE RebuildFrom(_, _, _, _)
RebuildFrom(g, bs, k, cs) ==
    IF k > Len(bs) THEN g
    ELSE RebuildFrom(insert(g, bs[k].position, bs[k].id, cs), bs, k + 1, cs)

\* spatial_hash.clear() and the insert of every ball
Rebuild(bs, cs) == RebuildFrom(<<>>, bs, 1, cs)

RECURSIVE MaxOver(_, _, _)
MaxOver(vals, k, acc) ==
    IF k > Len(vals) THEN acc
    ELSE MaxOver(vals, k + 1, IF FGt(vals[k], acc) THEN vals[k] ELSE acc)

\* the id a spawned ball gets
SpawnId == IF variant = "legacy" THEN current_ball_idx ELSE Len(balls)

Spawns(input) == variant # "v3d" /\ input.right

BeginFrameWith(input) ==
    /\ pc = "begin"
    /\ inp' = input
    /\ IF Spawns(input)
       THEN /\ balls' = Append(balls, Ball(SpawnId, input.mouse, input.rand_velocity,
                                           input.rand_color, next_uid))
            /\ colors' = Append(colors, input.rand_color)
            /\ current_ball_idx' = IF variant = "legacy" THEN current_ball_idx + 1
                                   ELSE current_ball_idx
            /\ next_uid' = next_uid + 1
       ELSE UNCHANGED <<balls, colors, current_ball_idx, next_uid>>
    /\ grid' = Rebuild(balls', cell_size)
    /\ largest_speed' =
         IF display_mode = "Velocity"
         THEN MaxOver([k \in 1..Len(balls') |-> Length(balls'[k].velocity)], 1, 0)
         ELSE 0
    /\ largest_pressure' =
         IF display_mode = "Pressure"
         THEN MaxOver([k \in 1..Len(balls') |-> balls'[k].pressure], 1, 0)
         ELSE 0
    /\ views' = {}
    /\ step' = 0
    /\ i' = 0
    /\ pc' = IF sim_steps > 0 /\ Len(balls') > 0 THEN "resolve" ELSE "integrate"
    /\ UNCHANGED <<before, log, nearby, variant, cfg, do_gravity, display_mode, sim_steps, smoothed_fps, frame>>

\* the ids the loop gets for body k (from 0) at its present position
Neighbors(bs, k) ==
    IF variant = "legacy"
    THEN get_nearby_objects_range(grid, bs[k + 1].position, cell_size, cell_size)
    ELSE get_nearby_objects(grid, bs[k + 1].position, k, cell_size)

\* the two balls of a pair as the loop body leaves them
ResolvePair(ball, other_ball) ==
    IF is_colliding(ball, other_ball)
    THEN resolve_collision(ball, other_ball)
    ELSE <<[ball EXCEPT !.pressure = 0], [other_ball EXCEPT !.pressure = 0]>>

\* the loop over the neighbor ids ns of body k (from 0): the balls, the pairs
\* of indices (from 0) handed to the collision code, and whether an index
\* was out of range (split_at_mut or right[0] panics)
RECURSIVE ProcessNeighbors(_, _, _, _, _)
ProcessNeighbors(bs, ns, n, k, seen) ==
    IF n > Len(ns) THEN [balls |-> bs, views |-> seen, panic |-> FALSE]
    ELSE LET o == ns[n]
         IN  IF k = o THEN ProcessNeighbors(bs, ns, n + 1, k, seen)
             ELSE IF o >= Len(bs) THEN [balls |-> bs, views |-> seen, panic |-> TRUE]
             ELSE LET pair == ResolvePair(bs[k + 1], bs[o + 1])
                  IN  ProcessNeighbors([bs EXCEPT ![k + 1] = pair[1], ![o + 1] = pair[2]],
                                       ns, n + 1, k, seen \cup {<<k, o>>})

ResolveBody ==
    /\ pc = "resolve"
    /\ LET r == ProcessNeighbors(balls, Neighbors(balls, i), 1, i, {})
           last == (i + 1 = Len(balls))
       IN  /\ views' = r.views
           /\ IF r.panic
              THEN /\ balls' = r.balls
                   /\ pc' = "panic_index"
                   /\ UNCHANGED <<step, i>>
              ELSE /\ balls' = [r.balls EXCEPT
                                  ![Cur] = resolve_boundaries(r.balls[Cur], Extent,
                                                              bounce_amount)]
                   /\ i' = IF last THEN 0 ELSE i + 1
                   /\ step' = IF last THEN step + 1 ELSE step
                   /\ pc' = IF last /\ step + 1 >= sim_steps THEN "integrate"
                            ELSE "resolve"
    /\ UNCHANGED <<before, log, nearby, variant, cfg, colors, grid, current_ball_idx, do_gravity,
                   display_mode, sim_steps, smoothed_fps, frame, inp,
                   largest_speed, largest_pressure, next_uid>>

\* the fallback rate, 0.01 s
FallbackRate == Unit \div 100

\* let mut rate = delta_time; if rate < 0.0 { rate = 0.01 }
Rate(delta_time) == IF FLt(delta_time, 0) THEN FallbackRate ELSE delta_time

\* Vec::clamp_length_max
clamp_length_max(v, max) ==
    LET len == Length(v)
    IN  IF FGt(len, max) THEN VScale(VDivide(v, Unit, len), max, Unit) ELSE v

\* the pull towards the pointer: force, divided by its length when that
\* length is below 0.1
Attraction(ball, mouse) ==
    LET force == VSub(mouse, ball.position)
        distance == Length(force)
    IN  IF FLt(FMul(distance, 10, 1), Q) THEN VDivide(force, Q, distance) ELSE force

\* velocity.x *= resistance; velocity.y *= resistance (no other component)
Damp(v) == [k \in DOMAIN v |-> IF k <= 2 THEN FMul(v[k], resistance, Unit) ELSE v[k]]

\* the body of the integration loop for one ball
IntegrateBall(ball, mouse, mouse_pressed, grav, mode, rate) ==
    LET v1 == IF mouse_pressed /\ variant # "v3d"
              THEN VAdd(ball.velocity,
                        VScale(VScale(Attraction(ball, mouse), gravity, Q), rate, Unit))
              ELSE ball.velocity
        v2 == IF grav THEN [v1 EXCEPT ![2] = FAdd(v1[2], gravity)] ELSE v1
        b2 == [ball EXCEPT !.velocity = v2]
        color == CASE mode = "Normal" -> colors[ball.id + 1]
                   [] mode = "Velocity" -> get_color_from_vel(b2, largest_speed)
                   [] mode = "Pressure" -> get_color_from_pressure(b2, largest_pressure)
        v3 == clamp_length_max(Damp(v2), max_speed)
    IN  [ball EXCEPT !.velocity = v3, !.color = color,
                     !.position = VAdd(ball.position, VScale(v3, rate, Unit))]

Integrate ==
    /\ pc = "integrate"
    /\ LET grav == IF inp.space THEN ~do_gravity ELSE do_gravity
           mode == IF inp.dkey THEN toggle_display_mode(display_mode) ELSE display_mode
           oob == mode = "Normal" /\ \E k \in 1..Len(balls) : balls[k].id >= Len(colors)
       IN  /\ do_gravity' = grav
           /\ display_mode' = mode
           /\ IF oob
              THEN /\ pc' = "panic_index"
                   /\ UNCHANGED balls
              ELSE /\ balls' = [k \in 1..Len(balls) |->
                                  IntegrateBall(balls[k], inp.mouse, inp.left, grav, mode,
                                                Rate(inp.dt))]
                   /\ pc' = IF variant = "v2d" THEN "remove" ELSE "control"
    /\ UNCHANGED <<before, log, nearby, variant, cfg, colors, grid, current_ball_idx, sim_steps,
                   smoothed_fps, step, i, frame, inp, largest_speed,
                   largest_pressure, next_uid, views>>

\* the indices (from 1) of the balls nearer to the pointer than delete_dist,
\* in descending order: to_remove after its sort
RECURSIVE ToRemove(_, _, _, _)
ToRemove(bs, mouse, dist, k) ==
    IF k = 0 THEN <<>>
    ELSE (IF FLt(Distance(bs[k].position, mouse), dist) THEN <<k>> ELSE <<>>)
         \o ToRemove(bs, mouse, dist, k - 1)

\* a removal loop that stops after the first index
RemoveFirstOnly(s, to_remove, n) ==
    IF n > Len(to_remove) THEN s
    ELSE SubSeq(s, 1, to_remove[n] - 1) \o SubSeq(s, to_remove[n] + 1, Len(s))

\* survivors that keep the ids they had
ReassignNone(bs) == bs

\* Vec::remove
RemoveAt(s, idx) == SubSeq(s, 1, idx - 1) \o SubSeq(s, idx + 1, Len(s))

\* for idx in to_remove { v.remove(idx) }
RECURSIVE RemoveEach(_, _, _)
RemoveEach(s, to_remove, n) ==
    IF n > Len(to_remove) THEN s
    ELSE RemoveEach(RemoveAt(s, to_remove[n]), to_remove, n + 1)

\* ball.id = idx for every ball
Reassign(bs) == [k \in 1..Len(bs) |-> [bs[k] EXCEPT !.id = k - 1]]

Remove ==
    /\ pc = "remove"
    /\ IF inp.fkey
       THEN LET to_remove == ToRemove(balls, inp.mouse, cfg.delete_dist, Len(balls))
                kept == RemoveEach(balls, to_remove, 1)
            IN  /\ balls' = Reassign(kept)
                /\ colors' = LET cs == RemoveEach(colors, to_remove, 1)
                              IN  [k \in 1..Len(cs) |->
                                      IF k <= Len(kept) THEN kept[k].color ELSE cs[k]]
       ELSE UNCHANGED <<balls, colors>>
    /\ pc' = "control"
    /\ UNCHANGED <<before, log, nearby, variant, cfg, grid, current_ball_idx, do_gravity, display_mode,
                   sim_steps, smoothed_fps, step, i, frame, inp, largest_speed,
                   largest_pressure, next_uid, views>>

\* a clamp that has no upper bound
ClampLow(x, lo, hi) == IF x < lo THEN lo ELSE x

\* i32::clamp
Clamp(x, lo, hi) == IF x < lo THEN lo ELSE IF x > hi THEN hi ELSE x

\* s + d for d in -1, 0, 1 in an i32 that wraps around (a build without
\* overflow checks; one with them panics where this wraps)
WrappingAdd(s, d) ==
    IF d = 1 /\ s = I32Max THEN I32Min
    ELSE IF d = -1 /\ s = I32Min THEN I32Max
    ELSE s + d

\* the change of sim_steps the frame asks for
StepDelta(fps, up, down) ==
    IF variant = "legacy"
    THEN (IF fps < LEGACY_TARGET_FPS THEN -1
          ELSE IF fps > LEGACY_UPPER_FPS THEN 1 ELSE 0)
    ELSE IF cfg.auto_sim_steps
    THEN (IF fps < cfg.target_fps THEN -1
          ELSE IF fps > cfg.target_fps + cfg.fps_boundary THEN 1 ELSE 0)
    ELSE (IF up THEN 1 ELSE IF down THEN -1 ELSE 0)

Control ==
    /\ pc = "control"
    /\ smoothed_fps' = IF variant = "legacy" THEN smoothed_fps
                       ELSE update(smoothed_fps, inp.fps)
    /\ \E panics \in BOOLEAN :
         LET d == StepDelta(inp.fps, inp.up, inp.down)
             overflows == (d = 1 /\ sim_steps = I32Max) \/ (d = -1 /\ sim_steps = I32Min)
         IN  /\ panics => overflows
             /\ IF panics
                THEN /\ pc' = "panic_overflow"
                     /\ UNCHANGED <<sim_steps, frame>>
                ELSE /\ sim_steps' = Clamp(WrappingAdd(sim_steps, d), 1, 200)
                     /\ frame' = frame + 1
                     /\ pc' = "begin"
    /\ UNCHANGED <<before, log, nearby, variant, cfg, balls, colors, grid, current_ball_idx, do_gravity,
                   display_mode, step, i, inp, largest_speed, largest_pressure,
                   next_uid, views>>

(***************************************************************************)
(* Initial states and sampled inputs                                       *)
(***************************************************************************)
\* a point of the window, in pixels (3-D: in the plane z = 30)
At(x, y) == IF variant = "v3d" THEN <<x * Q, y * Q, 30 * Q>> ELSE <<x * Q, y * Q>>

\* a velocity, in pixels per second
Vel(x, y) == IF variant = "v3d" THEN <<x * Q, y * Q, 0>> ELSE <<x * Q, y * Q>>

Red == Color(Unit, 0, 0)
Green == Color(0, Unit, 0)
Blue == Color(0, 0, Unit)
White == Color(Unit, Unit, Unit)
Palette == <<Red, Green, White, Red>>

\* no query of the spatial hash made yet
NoQuery == [overload |-> "none", point |-> <<>>, id |-> 0, range |-> 0, result |-> <<>>]

\* what the host reports in one frame, and what rand returns for a spawn
Idle == [mouse |-> <<30 * Q, 30 * Q>>, right |-> FALSE, left |-> FALSE,
         space |-> FALSE, dkey |-> FALSE, fkey |-> FALSE, up |-> FALSE,
         down |-> FALSE, dt |-> 16, fps |-> 70,
         rand_velocity |-> <<10 * Q, -10 * Q>>, rand_color |-> Blue]

\* the balls of a scene: a sequence of <<position, velocity>>
SceneBalls(scene) ==
    [k \in 1..Len(scene) |->
        Ball(k - 1, scene[k][1], scene[k][2], Palette[k], k - 1)]

InitWith(variants, configs, scenes) ==
    /\ variant \in variants
    /\ cfg \in IF variant = "legacy" THEN {Config} ELSE configs
    /\ \E scene \in scenes :
         /\ variant = "legacy" => Len(scene) > 0
         /\ balls = SceneBalls(scene)
    /\ colors = [k \in 1..Len(balls) |-> balls[k].color]
    /\ grid = <<>>
    /\ current_ball_idx = IF variant = "legacy" THEN Len(balls) - 1 ELSE 0
    /\ do_gravity = TRUE
    /\ display_mode = "Normal"
    /\ sim_steps = IF variant = "legacy" THEN SIM_STEPS ELSE cfg.sim_steps
    /\ smoothed_fps = SmoothedFpsNew
    /\ pc = "begin"
    /\ step = 0
    /\ i = 0
    /\ frame = 0
    /\ inp = Idle
    /\ largest_speed = 0
    /\ largest_pressure = 0
    /\ next_uid = Len(balls)
    /\ views = {}
    /\ nearby = NoQuery
    /\ before = <<>>
    /\ log = <<>>

(***************************************************************************)
(* Spec: the frame loop of the three programs on small scenes              *)
(***************************************************************************)
MaxFrames == 2

\* nobody; one ball on the floor, falling; two overlapping balls closing in;
\* two balls at one place; two balls far apart; (2-D, for removals) four
\* balls of which the first and the third are near the pointer; and (3-D)
\* one ball moving along z
Scenes ==
    { <<>>,
      << <<At(30, 50), Vel(0, 20)>> >>,
      << <<At(20, 30), Vel(30, 0)>>, <<At(32, 30), Vel(-30, 0)>> >>,
      << <<At(30, 30), Vel(0, 0)>>, <<At(30, 30), Vel(5, 0)>> >>,
      << <<At(10, 10), Vel(-20, -20)>>, <<At(50, 50), Vel(20, 20)>> >> }
    \cup (IF variant = "v2d"
          THEN { << <<At(26, 30), Vel(0, 0)>>, <<At(10, 10), Vel(0, 0)>>,
                    <<At(34, 30), Vel(0, 0)>>, <<At(50, 50), Vel(0, 0)>> >> }
          ELSE {})
    \cup (IF variant = "v3d"
          THEN { << <<At(30, 30), <<0, 0, 30 * Q>> >> >> }
          ELSE {})

Configs == { Config,
             [Config EXCEPT !.sim_steps = 1, !.auto_sim_steps = FALSE,
                            !.max_pressure = Unit \div 10] }

Inputs ==
    { Idle,
      [Idle EXCEPT !.right = TRUE],
      [Idle EXCEPT !.left = TRUE, !.mouse = <<30 * Q, 50 * Q>>],
      [Idle EXCEPT !.space = TRUE, !.fps = 50],
      [Idle EXCEPT !.dkey = TRUE, !.fps = 90],
      [Idle EXCEPT !.fkey = TRUE],
      [Idle EXCEPT !.dt = 0, !.up = TRUE],
      [Idle EXCEPT !.dt = -5, !.down = TRUE] }

Init == InitWith(Variants, Configs, Scenes)

BeginFrame == frame < MaxFrames /\ \E input \in Inputs : BeginFrameWith(input)

Next == BeginFrame \/ ResolveBody \/ Integrate \/ Remove \/ Control

Spec == Init /\ [][Next]_vars

(***************************************************************************)
(* SpecSteps: the step-count controller over every kind of configured      *)
(* sim_steps, with nobody to simulate (src/src/main.rs: one ball)          *)
(***************************************************************************)
StepFrames == 2

StepConfigs ==
    { [Config EXCEPT !.sim_steps = s, !.auto_sim_steps = a] :
        s \in {I32Min, 0, 1, 200, 201, I32Max}, a \in BOOLEAN }

StepScenes == IF variant = "legacy" THEN { << <<At(30, 30), Vel(0, 0)>> >> }
              ELSE { <<>> }

StepInputs ==
    { [Idle EXCEPT !.fps = f, !.up = u, !.down = d] :
        f \in {50, 70, 90}, u \in BOOLEAN, d \in BOOLEAN }

InitSteps == InitWith(Variants, StepConfigs, StepScenes)

BeginFrameSteps == frame < StepFrames /\ \E input \in StepInputs : BeginFrameWith(input)

NextSteps == BeginFrameSteps \/ ResolveBody \/ Integrate \/ Remove \/ Control

SpecSteps == InitSteps /\ [][NextSteps]_vars

(***************************************************************************)
(* SpecHash: inserts into a cleared SpatialHash and queries of it          *)
(***************************************************************************)
MaxInserts == 2

\* points on both sides of the origin and of cell borders, in pixels
HashPoints ==
    { At(-23, 0), At(-1, 0), At(0, 0), At(21, 21), At(22, 0), At(45, 23) }

HashIds == {0, 1}

HashRanges == { 0, 22 * Q, 33 * Q }

InitHash ==
    /\ variant \in Variants
    /\ cfg = Config
    /\ balls = <<>>
    /\ colors = <<>>
    /\ grid = <<>>
    /\ current_ball_idx = 0
    /\ do_gravity = TRUE
    /\ display_mode = "Normal"
    /\ sim_steps = cfg.sim_steps
    /\ smoothed_fps = SmoothedFpsNew
    /\ pc = "hash"
    /\ step = 0
    /\ i = 0
    /\ frame = 0
    /\ inp = Idle
    /\ largest_speed = 0
    /\ largest_pressure = 0
    /\ next_uid = 0
    /\ views = {}
    /\ nearby = NoQuery
    /\ before = <<>>
    /\ log = <<>>

HashUnchanged == UNCHANGED <<before, log, variant, cfg, colors, current_ball_idx, do_gravity,
                             display_mode, sim_steps, smoothed_fps, pc, step, i,
                             frame, inp, largest_speed, largest_pressure, views>>

\* spatial_hash.insert(ball.position, ball.id); balls keeps what was inserted
HashInsert ==
    /\ pc = "hash"
    /\ Len(balls) < MaxInserts
    /\ \E p \in HashPoints, id \in HashIds :
          /\ balls' = Append(balls, Ball(id, p, Vel(0, 0), Red, next_uid))
          /\ grid' = insert(grid, p, id, cell_size)
    /\ next_uid' = next_uid + 1
    /\ nearby' = NoQuery
    /\ HashUnchanged

\* get_nearby_objects(position, id) of the versioned programs
HashQuery ==
    /\ pc = "hash"
    /\ variant # "legacy"
    /\ \E p \in HashPoints, id \in HashIds :
          nearby' = [overload |-> "block", point |-> p, id |-> id, range |-> 0,
                     result |-> get_nearby_objects(grid, p, id, cell_size)]
    /\ UNCHANGED <<balls, grid, next_uid>>
    /\ HashUnchanged

\* get_nearby_objects(position, range) of src/src/spatial_hash.rs
HashQueryRange ==
    /\ pc = "hash"
    /\ variant = "legacy"
    /\ \E p \in HashPoints, range \in HashRanges :
          nearby' = [overload |-> "range", point |-> p, id |-> 0, range |-> range,
                     result |-> get_nearby_objects_range(grid, p, range, cell_size)]
    /\ UNCHANGED <<balls, grid, next_uid>>
    /\ HashUnchanged

\* a query answers for the grid as it is: an insert after it starts afresh
NextHash == HashInsert \/ HashQuery \/ HashQueryRange

SpecHash == InitHash /\ [][NextHash]_vars

(***************************************************************************)
(* SpecResolve: one call of resolve_collision on a pair of balls           *)
(***************************************************************************)
\* the second ball's center relative to the first, in pixels (x, y and, in
\* 3-D, z): scenario A, one place, along an axis, oblique, touching, apart
PairOffsets ==
    { <<5, 0, 0>>, <<0, 0, 0>>, <<12, 0, 0>>, <<3, 4, 0>>, <<-6, -8, 0>>,
      <<2, 3, 6>>, <<20, 0, 0>>, <<25, 0, 0>> }

\* the point at offset o (in pixels) from At(30, 30)
OffsetPoint(o) == [k \in 1..Dim |-> At(30, 30)[k] + o[k] * Q]

FirstVelocities == { Vel(50, 0), Vel(0, 0), Vel(-50, 0) }

SecondVelocities == { Vel(-50, 0), Vel(0, 0), Vel(30, 40) }

\* the pressure a ball has before the call
PriorPressures == { 0, 3 * (Unit \div 10) }

ResolveConfigs ==
    { [Config EXCEPT !.bounce_amount = b] : b \in {0, 6 * (Unit \div 10), Unit} }
    \cup { [Config EXCEPT !.max_pressure = Unit \div 10] }

InitResolve ==
    /\ variant \in Variants
    /\ cfg \in IF variant = "legacy" THEN {Config} ELSE ResolveConfigs
    /\ \E o \in PairOffsets, v1 \in FirstVelocities, v2 \in SecondVelocities,
          p \in PriorPressures :
         balls = << [Ball(0, At(30, 30), v1, Red, 0) EXCEPT !.pressure = p],
                    Ball(1, OffsetPoint(o), v2, Green, 1) >>
    /\ colors = <<Red, Green>>
    /\ grid = <<>>
    /\ current_ball_idx = 1
    /\ do_gravity = TRUE
    /\ display_mode = "Normal"
    /\ sim_steps = cfg.sim_steps
    /\ smoothed_fps = SmoothedFpsNew
    /\ pc = "pair"
    /\ step = 0
    /\ i = 0
    /\ frame = 0
    /\ inp = Idle
    /\ largest_speed = 0
    /\ largest_pressure = 0
    /\ next_uid = 2
    /\ views = {}
    /\ nearby = NoQuery
    /\ before = <<>>
    /\ log = <<>>

\* resolve_collision(&mut balls[0], &mut balls[1]); before keeps the pair
\* as it was handed over
ResolveCall ==
    /\ pc = "pair"
    /\ before' = balls
    /\ balls' = resolve_collision(balls[1], balls[2])
    /\ pc' = "resolved"
    /\ UNCHANGED <<log, nearby, variant, cfg, colors, grid, current_ball_idx,
                   do_gravity, display_mode, sim_steps, smoothed_fps, step, i,
                   frame, inp, largest_speed, largest_pressure, next_uid, views>>

NextResolve == ResolveCall

SpecResolve == InitResolve /\ [][NextResolve]_vars

(***************************************************************************)
(* SpecFps: a SmoothedFps and the samples it is updated with               *)
(***************************************************************************)
MaxUpdates == 62

\* get_fps() readings; a run of SpecFps has them rise, never fall
FpsSamples == {50, 70, 90}

InitFps ==
    /\ variant \in {"v2d", "v3d"}
    /\ cfg = Config
    /\ balls = <<>>
    /\ colors = <<>>
    /\ grid = <<>>
    /\ current_ball_idx = 0
    /\ do_gravity = TRUE
    /\ display_mode = "Normal"
    /\ sim_steps = cfg.sim_steps
    /\ smoothed_fps = SmoothedFpsNew
    /\ pc = "fps"
    /\ step = 0
    /\ i = 0
    /\ frame = 0
    /\ inp = Idle
    /\ largest_speed = 0
    /\ largest_pressure = 0
    /\ next_uid = 0
    /\ views = {}
    /\ nearby = NoQuery
    /\ before = <<>>
    /\ log = <<>>

\* smoothed_fps.update(fps as f32); log keeps every sample given
FpsUpdate ==
    /\ pc = "fps"
    /\ Len(log) < MaxUpdates
    /\ \E fps \in FpsSamples :
         /\ IF log = <<>> THEN TRUE ELSE fps >= log[Len(log)]
         /\ smoothed_fps' = update(smoothed_fps, fps)
         /\ log' = Append(log, fps)
    /\ UNCHANGED <<before, nearby, variant, cfg, balls, colors, grid,
                   current_ball_idx, do_gravity, display_mode, sim_steps, pc,
                   step, i, frame, inp, largest_speed, largest_pressure,
                   next_uid, views>>

NextFps == FpsUpdate

SpecFps == InitFps /\ [][NextFps]_vars

(***************************************************************************)
(* SpecContacts: the frame loop on three balls in a row, two of them deep  *)
(* in each other, so that a resolution moves a ball across a cell border   *)
(* before the third ball is processed                                      *)
(***************************************************************************)
ContactFrames == 2

\* cells are 22 pixels wide: the first two balls are in cell 2 of the x
\* axis and the third in cell 0 (or, in the second scene, the last two in
\* cell 2 and the first in cell 0); in the third scene nobody is pushed far
ContactScenes ==
    { << <<At(45, 30), Vel(0, 0)>>, <<At(50, 30), Vel(0, 0)>>, <<At(21, 30), Vel(0, 0)>> >>,
      << <<At(21, 30), Vel(0, 0)>>, <<At(45, 30), Vel(0, 0)>>, <<At(50, 30), Vel(0, 0)>> >>,
      << <<At(12, 30), Vel(0, 0)>>, <<At(30, 30), Vel(0, 0)>>, <<At(48, 30), Vel(0, 0)>> >> }

ContactInputs ==
    { Idle,
      [Idle EXCEPT !.space = TRUE],
      [Idle EXCEPT !.fkey = TRUE, !.mouse = <<50 * Q, 30 * Q>>] }

InitContacts == InitWith(Variants, Configs, ContactScenes)

BeginFrameContacts ==
    frame < ContactFrames /\ \E input \in ContactInputs : BeginFrameWith(input)

NextContacts == BeginFrameContacts \/ ResolveBody \/ Integrate \/ Remove \/ Control

SpecContacts == InitContacts /\ [][NextContacts]_vars

(***************************************************************************)
(* Properties                                                              *)
(***************************************************************************)
\* position within [radius, extent - radius] on every axis
Contained(b) ==
    \A k \in DOMAIN b.position :
        /\ FLe(b.radius, b.position[k])
        /\ FLe(b.position[k], FSub(Extent[k], b.radius))

\* C1: at the end of every full frame (rebuild, the passes with their
\* boundary clamp, the integration) every body's position lies in
\* [radius, extent - radius] on every axis.
C1_BoundaryContainment ==
    (pc = "begin" /\ frame > 0) => \A k \in 1..Len(balls) : Contained(balls[k])

\* C2: after any per-frame adjustment, adaptive or manual, sim_steps is in
\* [1, 200], whatever sim_steps was configured.
C2_StepCountBound == frame > 0 => sim_steps \in 1..200

\* a configured sim_steps above 200 was clamped and then taken down by one
C2_Witness ==
    /\ frame > 1
    /\ variant # "legacy"
    /\ cfg.sim_steps > 200
    /\ sim_steps = 199

\* C3: with n bodies in the collection, a spawn appends a body whose id is n,
\* for every spawn of any sequence of spawns.
C3_SpawnId ==
    [][(pc = "begin" /\ Len(balls') = Len(balls) + 1)
         => balls'[Len(balls')].id = Len(balls)]_vars

\* the body is at delete_dist or farther from the pointer
C4_Survives(b) == ~FLt(Distance(b.position, inp.mouse), cfg.delete_dist)

\* C4: a delete-near-pointer request removes exactly the bodies nearer to
\* the pointer than delete_dist (the bound itself is kept), and the k
\* survivors carry the ids 0..k-1 of their positions, in the order they had.
C4_BatchRemoval ==
    [][(pc = "remove" /\ inp.fkey)
         => LET survivors == SelectSeq(balls, C4_Survives)
            IN  balls' = [k \in 1..Len(survivors) |->
                             [survivors[k] EXCEPT !.id = k - 1]]]_vars

\* the first and the third of four bodies were removed: the second and the
\* fourth are left, with ids 0 and 1
C4_Witness ==
    /\ pc = "control"
    /\ inp.fkey
    /\ Len(balls) = 2
    /\ balls[1].uid = 1 /\ balls[1].id = 0
    /\ balls[2].uid = 3 /\ balls[2].id = 1

\* C5: after any resolution, for any configured max_pressure >= 0, the
\* pressure of both bodies lies in [0, max_pressure].
C5_PressureBound ==
    \A k \in 1..Len(balls) :
        /\ FLe(0, balls[k].pressure)
        /\ FLe(balls[k].pressure, max_pressure)

\* the distance up to which the last query has to return what was inserted
QueryReach == IF nearby.overload = "range" THEN nearby.range ELSE cell_size

\* the inserted bodies (by index) within reach of the last query's point
WithinReach ==
    { k \in 1..Len(balls) :
        FLe(Distance(balls[k].position, nearby.point), QueryReach) }

Returned == { nearby.result[n] : n \in 1..Len(nearby.result) }

\* C6, as stated: the neighbor query returns every inserted id whose distance
\* to the query point is <= cell_size (<= range for the range overload).
C6_Superset ==
    nearby.overload # "none" => \A k \in WithinReach : balls[k].id \in Returned

\* C6, amended: the neighbor query returns every inserted id, other than the
\* id it was told to leave out, whose distance to the query point is
\* <= cell_size (<= range for the range overload), negative coordinates
\* included.
C6_SupersetButSelf ==
    nearby.overload # "none" =>
        \A k \in WithinReach :
            (nearby.overload = "block" /\ balls[k].id = nearby.id)
            \/ balls[k].id \in Returned

\* a query left of the origin got a body of another cell, also left of it
C6_Witness ==
    /\ nearby.overload = "block"
    /\ nearby.point[1] < 0
    /\ \E k \in WithinReach :
         /\ balls[k].position[1] < 0
         /\ to_cell_coords(balls[k].position, cell_size)
              # to_cell_coords(nearby.point, cell_size)
         /\ balls[k].id # nearby.id
         /\ balls[k].id \in Returned

\* C7: a resolution of two bodies whose centers coincide skips entirely:
\* positions, velocities and pressures of both stay as they were.
C7_CoincidentGuard ==
    [][(/\ pc = "resolve"
        /\ Len(balls) = 2
        /\ ~VHasNaN(balls[1].position)
        /\ balls[1].position = balls[2].position)
         => \A k \in 1..2 :
               /\ balls'[k].position = balls[k].position
               /\ balls'[k].velocity = balls[k].velocity
               /\ balls'[k].pressure = balls[k].pressure]_vars

\* C8: in every pass, the two views handed to the collision code are two
\* distinct elements of the collection, both indices in range; no index is
\* out of range and (i, i) is never resolved, after any frames, spawns and
\* removals.
C8_DisjointIndices ==
    [][pc = "resolve"
         => /\ pc' # "panic_index"
            /\ \A v \in views' :
                  /\ v[1] # v[2]
                  /\ v[1] \in 0..(Len(balls') - 1)
                  /\ v[2] \in 0..(Len(balls') - 1)]_vars

\* a pair was resolved for a body that a removal has moved to another index
C8_Witness ==
    /\ frame > 0
    /\ pc \in {"resolve", "integrate"}
    /\ \E v \in views : balls[v[1] + 1].uid # v[1]

\* the change of sim_steps a smoothed fps (in 1/Unit) asks for
SmoothedDelta(avg) ==
    IF avg < cfg.target_fps * Unit THEN -1
    ELSE IF avg > (cfg.target_fps + cfg.fps_boundary) * Unit THEN 1
    ELSE 0

\* C9: with auto_sim_steps on, sim_steps goes down exactly when the smoothed
\* fps is below target_fps, up exactly when it is above target_fps +
\* fps_boundary, and stays otherwise (before the clamp).
C9_SmoothedDecides ==
    [][(/\ pc = "control" /\ pc' = "begin"
        /\ variant # "legacy"
        /\ cfg.auto_sim_steps)
         => sim_steps' = Clamp(WrappingAdd(sim_steps,
                                           SmoothedDelta(get_average(smoothed_fps'))),
                               1, 200)]_vars

\* C10: whenever the frame time dt is <= 0, zero included, the integration
\* uses the fallback 0.01 as its rate.
C10_DtFallback ==
    [][(pc = "integrate" /\ pc' # "panic_index" /\ inp.dt <= 0)
         => balls' = [k \in 1..Len(balls) |->
                         IntegrateBall(balls[k], inp.mouse, inp.left, do_gravity',
                                       display_mode', FallbackRate)]]_vars

\* scenario A: radius 10, centers 5 apart along x, velocities (+50, 0) and
\* (-50, 0), bounce_amount 0.6
ScenarioA(pair) ==
    /\ pair[1].radius = 10 * Q /\ pair[2].radius = 10 * Q
    /\ VSub(pair[2].position, pair[1].position) = Vel(5, 0)
    /\ pair[1].velocity = Vel(50, 0)
    /\ pair[2].velocity = Vel(-50, 0)
    /\ (IF variant = "legacy" THEN BOUNCE_AMOUNT ELSE cfg.bounce_amount)
         = 6 * (Unit \div 10)

\* C11: in scenario A one resolve call leaves the centers at distance >= 20
\* and gives each body an x-velocity of the sign opposite to the one it had.
C11_ScenarioA ==
    (pc = "resolved" /\ ScenarioA(before)) =>
        /\ FLe(20 * Q, Distance(balls[1].position, balls[2].position))
        /\ FLt(balls[1].velocity[1], 0)
        /\ FGt(balls[2].velocity[1], 0)

\* what the rounding of the unit normal to 1/Unit may cost a length of up to
\* two radii: 0.05 pixels
Tolerance == Q \div 20

\* the pair has distinct centers and overlaps by 0.001 or more
Overlapping(pair) ==
    /\ pair[1].position # pair[2].position
    /\ ~OverlapBelowThreshold(
          FSub(pair[1].radius + pair[2].radius,
               Distance(pair[1].position, pair[2].position)))

\* C12: for a pair with distinct centers and overlap > 0.001, resolve moves
\* the two bodies apart by overlap/2 each along their normal: the center
\* distance afterwards is strictly greater than before and equals
\* radius_a + radius_b (to the rounding of a length), and the midpoint of
\* the pair is where it was.
C12_OverlapReduction ==
    (pc = "resolved" /\ Overlapping(before)) =>
        LET d0 == Distance(before[1].position, before[2].position)
            d1 == Distance(balls[1].position, balls[2].position)
            sum == before[1].radius + before[2].radius
        IN  /\ FGt(d1, d0)
            /\ Abs(d1 - sum) <= Tolerance
            /\ VAdd(balls[1].position, balls[2].position)
                 = VAdd(before[1].position, before[2].position)
            /\ balls[1].radius = before[1].radius
            /\ balls[2].radius = before[2].radius

\* an oblique pair, 3.6 pixels apart, was moved apart
C12_Witness ==
    /\ pc = "resolved"
    /\ Overlapping(before)
    /\ variant = "v2d"
    /\ VSub(before[2].position, before[1].position) = <<2 * Q, 3 * Q>>
    /\ balls[1].position # before[1].position
    /\ balls[2].position # before[2].position

\* the unit normal from the first to the second ball of the pair
Normal(pair) ==
    VDivide(VSub(pair[2].position, pair[1].position), Unit,
            Distance(pair[1].position, pair[2].position))

\* the closing value of the velocities vs along the normal n: the velocity
\* of the second relative to the first, dotted with n
Closing(v1, v2, n) == Dot(VSub(v2, v1), n)

DisplayModes == {"Normal", "Velocity", "Pressure"}

\* the mode after the one given, in the cycle Normal, Velocity, Pressure
ModeAfter == [m \in DisplayModes |->
                 IF m = "Normal" THEN "Velocity"
                 ELSE IF m = "Velocity" THEN "Pressure" ELSE "Normal"]

\* what of a ball is physics: all but its color
Physical(b) == [position |-> b.position, velocity |-> b.velocity,
                pressure |-> b.pressure, radius |-> b.radius]

\* C14: the display mode is a 3-cycle: a toggle request takes Normal to
\* Velocity, Velocity to Pressure, Pressure to Normal (three toggles give
\* the mode back) and nothing else changes the mode; and it has no physical
\* effect: the integration, the one place that reads the mode, leaves the
\* same positions, velocities, pressures and body count whatever the mode
\* is, toggled or not, and never fails on it.
C14_DisplayModeCycle ==
    [][/\ display_mode' \in DisplayModes
       /\ display_mode' # display_mode => (pc = "integrate" /\ inp.dkey)
       /\ (pc = "integrate" /\ inp.dkey) => display_mode' = ModeAfter[display_mode]
       /\ \A m \in DisplayModes :
            toggle_display_mode(toggle_display_mode(toggle_display_mode(m))) = m
       /\ pc = "integrate" =>
            /\ pc' # "panic_index"
            /\ Len(balls') = Len(balls)
            /\ \A m \in DisplayModes : \A k \in 1..Len(balls) :
                 Physical(balls'[k])
                   = Physical(IntegrateBall(balls[k], inp.mouse, inp.left,
                                            do_gravity', m, Rate(inp.dt)))]_vars

\* a second toggle has brought the mode to Pressure, with a ball integrated
C14_Witness ==
    /\ pc \in {"remove", "control"}
    /\ display_mode = "Pressure"
    /\ inp.dkey
    /\ Len(balls) > 0

\* the velocity of ball b after the gravity of the frame, no pointer pulling
AfterGravity(b) ==
    IF do_gravity' THEN [b.velocity EXCEPT ![2] = FAdd(b.velocity[2], gravity)]
    ELSE b.velocity

\* C15: in the integration of a frame, in 2-D and in 3-D, every one of the D
\* components of a body's velocity is multiplied by resistance, the speed is
\* then clamped to max_speed, and the position advances by velocity * dt;
\* so the speed after the integration is <= max_speed.
C15_DampingAndCap ==
    [][(pc = "integrate" /\ pc' # "panic_index" /\ ~inp.left) =>
         \A k \in 1..Len(balls) :
            (~VHasNaN(balls[k].velocity) /\ ~VHasNaN(balls[k].position)) =>
               LET damped == [d \in 1..Dim |->
                                 FMul(AfterGravity(balls[k])[d], resistance, Unit)]
               IN  /\ balls'[k].velocity = clamp_length_max(damped, max_speed)
                   /\ FLe(Length(balls'[k].velocity), max_speed)
                   /\ balls'[k].position
                        = VAdd(balls[k].position,
                               VScale(balls'[k].velocity, Rate(inp.dt), Unit))]_vars

\* clamp(-impulse / (pi * radius^2), 0, max_pressure), impulse = closing *
\* bounce_amount
ImpulsePressure(closing, radius) ==
    FMax(FMin(FDiv(FNeg(FMul(closing, bounce_amount, Unit)), Unit, Area(radius)),
              max_pressure),
         0)

\* C16: after a resolve call that applies a velocity response, the pressure
\* of each body is clamp(-impulse / (pi * radius^2), 0, max_pressure) with
\* impulse = closing * bounce_amount, whatever pressure the body had before.
C16_PressureOverwritten ==
    LET c0 == Closing(before[1].velocity, before[2].velocity, Normal(before))
    IN  (pc = "resolved" /\ Overlapping(before) /\ FLe(c0, 0)) =>
            \A k \in 1..2 : balls[k].pressure = ImpulsePressure(c0, before[k].radius)

\* the sum of s[from..to]
RECURSIVE SumOf(_, _, _)
SumOf(s, from, to) == IF from > to THEN 0 ELSE s[from] + SumOf(s, from + 1, to)

\* the sum of the entries of the history array h
RECURSIVE SumHistory(_, _)
SumHistory(h, k) == IF k < 0 THEN 0 ELSE h[k] + SumHistory(h, k - 1)

\* C17: after k >= 1 updates get_average is the mean of the last min(k, 60)
\* samples, and with no update it is 0; always count <= 60, index < 60 and
\* sum is the sum of the history entries.
C17_MovingAverage ==
    pc = "fps" =>
        LET k == Len(log)
            n == IF k < 60 THEN k ELSE 60
        IN  /\ smoothed_fps.count <= 60
            /\ smoothed_fps.index \in 0..59
            /\ smoothed_fps.sum = SumHistory(smoothed_fps.history, 59)
            /\ get_average(smoothed_fps)
                 = IF k = 0 THEN 0 ELSE FDiv(SumOf(log, k - n + 1, k), Unit, n)

\* more than 60 samples were given and the first, now replaced, was lower
\* than the last
C17_Witness ==
    /\ pc = "fps"
    /\ Len(log) > 60
    /\ log[1] < log[Len(log)]
    /\ smoothed_fps.count = 60

\* C18: when the pointer pulls and a body is at the pointer (distance 0),
\* the integration does not divide by that distance: the normalization is
\* skipped for the body and its velocity stays finite.
C18_AttractionGuard ==
    [][(pc = "integrate" /\ pc' # "panic_index" /\ inp.left /\ variant # "v3d") =>
         \A k \in 1..Len(balls) :
            (/\ balls[k].position = inp.mouse
             /\ \A d \in 1..Dim : IsFinite(balls[k].velocity[d]))
              => \A d \in 1..Dim : IsFinite(balls'[k].velocity[d])]_vars

\* the places (cell, position in the cell's bucket) where grid g holds id
Places(g, id) ==
    UNION { { <<c, n>> : n \in { m \in 1..Len(g[c]) : g[c][m] = id } } :
            c \in DOMAIN g }

\* C19: when the index is rebuilt, in every frame and after any spawns and
\* removals, body k of the collection has id k (ids are 0..count-1, none
\* twice), every body is in the index exactly once, and the color table is
\* as long as the collection.
C19_IdEqualsPosition ==
    [][pc = "begin" =>
         /\ \A k \in 1..Len(balls') : balls'[k].id = k - 1
         /\ \A k \in 1..Len(balls') : Cardinality(Places(grid', k - 1)) = 1
         /\ Len(colors') = Len(balls')]_vars

\* the ids in a query result
Ids(ns) == { ns[n] : n \in 1..Len(ns) }

\* the bodies (indices from 0) that overlap body k as the balls stand now
Overlappers(bs, k) ==
    { o \in 0..(Len(bs) - 1) : o # k /\ is_colliding(bs[k + 1], bs[o + 1]) }

\* C20: in every pass of a frame, when body i is processed, every other
\* body that overlaps i at that moment is among the ids the neighbor query
\* returns for i's present position.
C20_NoMissedContacts ==
    pc = "resolve" =>
        \A o \in Overlappers(balls, i) : balls[o + 1].id \in Ids(Neighbors(balls, i))

\* body k of bs has an entry in the color table cs
HasStored(bs, cs, k) == bs[k].id >= 0 /\ bs[k].id < Len(cs)

\* the intrinsic color the table cs stores for body k of bs: colors[ball.id]
StoredColor(bs, cs, k) == cs[bs[k].id + 1]

\* the body of bs' that body k of bs is after the step, if it is still there
SameBody(k, m) == balls[k].uid = balls'[m].uid

\* body m of balls' was created by the step
Created(m) == \A k \in 1..Len(balls) : ~SameBody(k, m)

\* C21: the color stored for a body is the one it was given at creation and
\* no step changes it (a spawn, a removal in whatever display mode, a toggle,
\* a frame), and in Normal mode the body is displayed with that color.
C21_IntrinsicColor ==
    [][/\ \A m \in 1..Len(balls') :
            Created(m) => /\ HasStored(balls', colors', m)
                          /\ StoredColor(balls', colors', m) = balls'[m].color
       /\ \A k \in 1..Len(balls), m \in 1..Len(balls') :
            (SameBody(k, m) /\ HasStored(balls, colors, k))
               => /\ HasStored(balls', colors', m)
                  /\ StoredColor(balls', colors', m) = StoredColor(balls, colors, k)
       /\ (pc = "integrate" /\ pc' # "panic_index" /\ display_mode' = "Normal")
            => \A m \in 1..Len(balls') :
                  balls'[m].color = StoredColor(balls', colors', m)]_vars

\* the controller adapts by itself (version_2d and version_3d; src/src/main.rs
\* has no such setting and is left out of C22)
Auto == variant # "legacy" /\ cfg.auto_sim_steps

\* the fps signal of every frame so far, the one being closed included: the
\* moving averages (in 1/Unit) after each of the samples in the history s
\* of a counter that has not yet replaced a sample
Signals(s) == { FDiv(SumHistory(s.history, n - 1), Unit, n) : n \in 1..s.count }

Below(avg) == avg < cfg.target_fps * Unit

Above(avg) == avg > (cfg.target_fps + cfg.fps_boundary) * Unit

Within(avg) == ~Below(avg) /\ ~Above(avg)

\* C22: with auto_sim_steps on, sim_steps (once in 1..200) changes by at
\* most 1 per frame; when the fps signal has stayed below target_fps on
\* every frame, sim_steps once at 1 remains 1; when it has stayed above
\* target_fps + fps_boundary, sim_steps once at 200 remains 200; when it has
\* stayed within the band, sim_steps does not change.  With auto_sim_steps
\* off and no request, sim_steps keeps its value whatever the fps.
C22_StepConvergence ==
    [][(/\ pc = "control" /\ pc' = "begin"
        /\ variant # "legacy"
        /\ smoothed_fps'.count < FPS_HISTORY_SIZE
        /\ sim_steps \in 1..200)
         => IF Auto
            THEN /\ sim_steps' - sim_steps \in {-1, 0, 1}
                 /\ (\A avg \in Signals(smoothed_fps') : Below(avg))
                      => (sim_steps = 1 => sim_steps' = 1)
                 /\ (\A avg \in Signals(smoothed_fps') : Above(avg))
                      => (sim_steps = 200 => sim_steps' = 200)
                 /\ (\A avg \in Signals(smoothed_fps') : Within(avg))
                      => sim_steps' = sim_steps
            ELSE (~inp.up /\ ~inp.down) => sim_steps' = sim_steps]_vars

=============================================================================
